---- MODULE Spec2Model ----
(***************************************************************************)
(* Model of ai_council.py: the council roster (COUNCIL), the shared        *)
(* ConversationMemory (MEMORY), run_council / ask_agent /                  *)
(* parse_winning_agent / maybe_eliminate_and_replace and the interactive   *)
(* loop of main().  Text is modelled as sequences of one-character         *)
(* strings so that strip(), lower() and the substring test are computed.   *)
(***************************************************************************)
EXTENDS Integers, Sequences, FiniteSets, TLC

VARIABLES
    COUNCIL,           \* global roster: sequence of Agent records
    turns,             \* MEMORY.turns
    max_turns,         \* MEMORY.max_turns
    questions_asked,   \* main(): questions_asked
    pc,                \* position of main()/run_council()
    question,          \* main(): question of the round in flight
    idx,               \* run_council(): position of "for agent in COUNCIL"
    answers_by_agent,  \* run_council(): ordered dict name -> answer
    judge_output,      \* run_council(): judge_output
    winner_name,       \* main(): winner_name
    winner_answer,     \* main(): winner_answer
    err,               \* exception that left main() uncaught, or NoErr
    added,             \* history: every (user, assistant) pair given to add_turn
    startCouncil,      \* history: COUNCIL when the round in flight started
    startTurns,        \* history: MEMORY.turns when the round in flight started
    judge_calls,       \* history: judge invocations made in the round in flight
    fallbacks,         \* history: <<keys, judge output, winner, 1 or 2 (repeat)>>
                       \* of the verdicts resolved by the fallback
    histories,         \* history: the history_messages given to call_ollama by
                       \* each call of the round in flight
    passes             \* history: questions_asked at each elimination pass

vars == <<COUNCIL, turns, max_turns, questions_asked, pc, question, idx,
          answers_by_agent, judge_output, winner_name, winner_answer, err,
          added, startCouncil, startTurns, judge_calls, fallbacks,
          histories, passes>>

----------------------------------------------------------------------------
(* Bounds of the exploration *)

MaxRounds == 5

MaxRoundsLong == 20

MaxK == 3

MaxAdds == 4

MaxTotal == 3

----------------------------------------------------------------------------
(* Program constants *)

DefaultMaxTurns == 10

EliminationCadence == 5

ThresholdAnswers == 10

MinWinRateNum == 15

MinWinRateDen == 100

----------------------------------------------------------------------------
(* Text helpers: str.lower(), str.strip(), "sub in s" *)

UpperChars == <<"A","B","C","D","E","F","G","H","I","J","K","L","M",
                "N","O","P","Q","R","S","T","U","V","W","X","Y","Z">>

LowerChars == <<"a","b","c","d","e","f","g","h","i","j","k","l","m",
                "n","o","p","q","r","s","t","u","v","w","x","y","z">>

ToLower ==
    [c \in {UpperChars[i] : i \in 1..26} |->
        LowerChars[CHOOSE i \in 1..26 : UpperChars[i] = c]]

LowerChar(c) == IF c \in DOMAIN ToLower THEN ToLower[c] ELSE c

Lower(s) == [i \in 1..Len(s) |-> LowerChar(s[i])]

ToUpper ==
    [c \in {LowerChars[i] : i \in 1..26} |->
        UpperChars[CHOOSE i \in 1..26 : LowerChars[i] = c]]

\* str.upper(), used to write inputs
Upper(s) == [i \in 1..Len(s) |-> IF s[i] \in DOMAIN ToUpper THEN ToUpper[s[i]] ELSE s[i]]

IsSpace(c) == c \in {" ", "\n", "\t"}

RECURSIVE LStrip(_)
LStrip(s) ==
    IF s # <<>> /\ IsSpace(Head(s)) THEN LStrip(Tail(s)) ELSE s

RECURSIVE RStrip(_)
RStrip(s) ==
    IF s # <<>> /\ IsSpace(s[Len(s)]) THEN RStrip(SubSeq(s, 1, Len(s) - 1)) ELSE s

Strip(s) == RStrip(LStrip(s))

\* Python "sub in s"
In(sub, s) ==
    \E k \in 0..(Len(s) - Len(sub)) : SubSeq(s, k + 1, k + Len(sub)) = sub

Max(a, b) == IF a >= b THEN a ELSE b

----------------------------------------------------------------------------
(* Agent and the initial COUNCIL *)

Agent(n, r, p) ==
    [name |-> n, role |-> r, system_prompt |-> p, wins |-> 0, total_answers |-> 0]

Analyst == <<"A","n","a","l","y","s","t">>

Optimist == <<"O","p","t","i","m","i","s","t">>

Skeptic == <<"S","k","e","p","t","i","c">>

TraineePrefix == <<"T","r","a","i","n","e","e","_">>

InitialCouncil ==
    << Agent(Analyst, "careful analyst", "calm analytical"),
       Agent(Optimist, "optimistic strategist", "optimistic realistic"),
       Agent(Skeptic, "critical reviewer", "skeptical critic") >>

\* Python None, distinct from every text
None == <<"<None>">>

NoErr == "none"

\* what call_ollama can raise: requests.post / raise_for_status / resp.json() /
\* data["message"]["content"]
GatewayErrors == {"ConnectionError", "HTTPError", "KeyError"}

----------------------------------------------------------------------------
(* ConversationMemory *)

\* list[-k:]
LastSlice(s, k) ==
    IF k = 0 THEN s ELSE SubSeq(s, Max(1, Len(s) - k + 1), Len(s))

\* mutant: truncation keeps the oldest turns
add_turn_keep_oldest(ts, k, user_text, assistant_text) ==
    LET appended == Append(ts, <<user_text, assistant_text>>)
    IN  IF Len(appended) > k THEN SubSeq(appended, 1, k) ELSE appended

add_turn(ts, k, user_text, assistant_text) ==
    LET appended == Append(ts, <<user_text, assistant_text>>)
    IN  IF Len(appended) > k THEN LastSlice(appended, k) ELSE appended

\* mutant: the assistant entry comes before the user entry
RECURSIVE to_messages_swapped(_)
to_messages_swapped(ts) ==
    IF ts = <<>> THEN <<>>
    ELSE << [role |-> "assistant", content |-> ts[1][2]],
            [role |-> "user", content |-> ts[1][1]] >> \o to_messages_swapped(Tail(ts))

RECURSIVE to_messages(_)
to_messages(ts) ==
    IF ts = <<>> THEN <<>>
    ELSE << [role |-> "user", content |-> ts[1][1]],
            [role |-> "assistant", content |-> ts[1][2]] >> \o to_messages(Tail(ts))

\* call_ollama: "if history_messages is None: history_messages = []"
HistoryMessages(history_messages) ==
    IF history_messages = None THEN <<>> ELSE history_messages

\* the judge as the caller of call_ollama
JudgeId == <<"<judge>">>

\* one call of call_ollama: who asked, MEMORY.turns at the call, the history sent
CallRecord(who, log, messages) == [who |-> who, log |-> log, messages |-> messages]

----------------------------------------------------------------------------
(* dict with insertion order: sequence of <<key, value>> *)

DictKeys(d) == [i \in 1..Len(d) |-> d[i][1]]

DictHas(d, k) == \E i \in 1..Len(d) : d[i][1] = k

\* mutant: lookup ignores the key
DictGet_first(d, k) == d[1][2]

DictGet(d, k) == d[CHOOSE i \in 1..Len(d) : d[i][1] = k][2]

DictPut(d, k, v) ==
    IF DictHas(d, k)
    THEN [i \in 1..Len(d) |-> IF d[i][1] = k THEN <<k, v>> ELSE d[i]]
    ELSE Append(d, <<k, v>>)

----------------------------------------------------------------------------
(* Judge verdict *)

\* mutant: the last matching name wins
RECURSIVE FirstMatch_last(_, _)
FirstMatch_last(raw, names) ==
    IF names = <<>> THEN None
    ELSE IF In(Lower(names[Len(names)]), raw) THEN names[Len(names)]
    ELSE FirstMatch_last(raw, SubSeq(names, 1, Len(names) - 1))

RECURSIVE FirstMatch(_, _)
FirstMatch(raw, names) ==
    IF names = <<>> THEN None
    ELSE IF In(Lower(Head(names)), raw) THEN Head(names)
    ELSE FirstMatch(raw, Tail(names))

\* mutant: the judge output is not lower-cased
parse_winning_agent_no_lower(out, agent_names) ==
    FirstMatch(Strip(out), agent_names)

parse_winning_agent(out, agent_names) ==
    FirstMatch(Lower(Strip(out)), agent_names)

\* mutant: the fallback picks the last key
ResolveWinner_last(out, answers) ==
    LET parsed == parse_winning_agent(out, DictKeys(answers))
    IN  IF parsed = None THEN DictKeys(answers)[Len(answers)] ELSE parsed

\* run_council: fallback when the parse gives None
ResolveWinner(out, answers) ==
    LET parsed == parse_winning_agent(out, DictKeys(answers))
    IN  IF parsed = None THEN DictKeys(answers)[1] ELSE parsed

\* mutant: the name comparison never succeeds, nobody is credited
CreditWinner_none(council, name) == council

\* mutant: no break, and the comparison lost: every agent is credited
CreditWinner_all(council, name) ==
    [i \in 1..Len(council) |-> [council[i] EXCEPT !.wins = @ + 1]]

\* run_council: "for agent in COUNCIL: if agent.name == winner: wins += 1; break"
RECURSIVE CreditWinner(_, _)
CreditWinner(council, name) ==
    IF council = <<>> THEN <<>>
    ELSE IF Head(council).name = name
    THEN <<[Head(council) EXCEPT !.wins = @ + 1]>> \o Tail(council)
    ELSE <<Head(council)>> \o CreditWinner(Tail(council), name)

----------------------------------------------------------------------------
(* Elimination *)

\* mutant: "win_rate <= min_win_rate"
Underperforms_le(agent, threshold_answers, num, den) ==
    /\ agent.total_answers >= threshold_answers
    /\ agent.wins * den <= num * Max(1, agent.total_answers)

Underperforms(agent, threshold_answers, num, den) ==
    /\ agent.total_answers >= threshold_answers
    /\ agent.wins * den < num * Max(1, agent.total_answers)

\* mutant: every replacement is named "Trainee_"
Replacement_generic(old_name) ==
    Agent(TraineePrefix, "new trainee council member", "fresh eager trainee")

Replacement(old_name) ==
    Agent(TraineePrefix \o old_name, "new trainee council member", "fresh eager trainee")

\* mutant: a replacement takes the place of its predecessor in the roster
maybe_eliminate_in_place(council, threshold_answers, num, den) ==
    [i \in 1..Len(council) |->
        IF Underperforms(council[i], threshold_answers, num, den)
        THEN Agent(TraineePrefix \o council[i].name,
                   "new trainee council member", "fresh eager trainee")
        ELSE council[i]]

maybe_eliminate_and_replace(council, threshold_answers, num, den) ==
    LET bad(a) == Underperforms(a, threshold_answers, num, den)
        good(a) == ~bad(a)
        kept == SelectSeq(council, good)
        eliminated == SelectSeq(council, bad)
    IN  kept \o [i \in 1..Len(eliminated) |-> Replacement(eliminated[i].name)]

----------------------------------------------------------------------------
(* Inputs drawn by the environment *)

\* input() raising EOFError / KeyboardInterrupt
EOF == <<"<EOF>">>

\* lines typed at the prompt: blank, "Quit", " hi"
Inputs == { EOF, <<" ">>, <<"Q","u","i","t">>, <<" ","h","i">> }

LongInputs == { <<"h","i">>, <<"e","x","i","t">> }

\* message contents returned by the model for a persona: "yes ", "no"
Replies == { <<"y","e","s"," ">>, <<"n","o">> }

LongReplies == { <<"o","k">> }

\* message contents returned by the model for the judge:
\* " Optimist\n", "SKEPTIC>analyst", "", "none", "Analyst"
JudgeReplies ==
    { <<" ","O","p","t","i","m","i","s","t","\n">>,
      <<"S","K","E","P","T","I","C",">","a","n","a","l","y","s","t">>,
      <<>>,
      <<"n","o","n","e">>,
      Analyst }

\* "trainee_trainee_analyst", "Trainee_Trainee_Optimist", " TRAINEE_SKEPTIC\n":
\* the first two name one roster slot through two generations of replacements,
\* the third names Skeptic, is exactly the first replacement's name in another
\* letter case, and does not name the second replacement
LongJudgeReplies ==
    { Lower(TraineePrefix \o TraineePrefix \o Analyst),
      TraineePrefix \o TraineePrefix \o Optimist,
      <<" ">> \o Upper(TraineePrefix \o Skeptic) \o <<"\n">> }

MemTexts == { <<"u">>, <<"v">> }

\* (wins, total_answers) of a persona given to an elimination pass
Counts == { c \in (0..MaxTotal) \X (0..MaxTotal) : c[1] <= c[2] }

\* threshold_answers and min_win_rate (as num/den: 0.1, 0.15, 0.5) given to a pass
ElimThresholds == { 2, 3 }

ElimRates == { <<1, 10>>, <<15, 100>>, <<1, 2>> }

\* the roster with the counters c[i] = <<wins, total_answers>>
CouncilWith(c) ==
    [i \in 1..Len(InitialCouncil) |->
        [InitialCouncil[i] EXCEPT !.wins = c[i][1], !.total_answers = c[i][2]]]

\* a direct caller of to_messages
DirectId == <<"<direct>">>

----------------------------------------------------------------------------
(* Initial states *)

Init ==
    /\ COUNCIL = InitialCouncil
    /\ turns = <<>>
    /\ max_turns = DefaultMaxTurns
    /\ questions_asked = 0
    /\ pc = "input"
    /\ question = <<>>
    /\ idx = 0
    /\ answers_by_agent = <<>>
    /\ judge_output = <<>>
    /\ winner_name = None
    /\ winner_answer = None
    /\ err = NoErr
    /\ added = <<>>
    /\ startCouncil = InitialCouncil
    /\ startTurns = <<>>
    /\ judge_calls = 0
    /\ fallbacks = {}
    /\ histories = <<>>
    /\ passes = <<>>

\* a ConversationMemory(max_turns = K) on its own
InitMem ==
    /\ COUNCIL = InitialCouncil
    /\ turns = <<>>
    /\ max_turns \in 1..MaxK
    /\ questions_asked = 0
    /\ pc = "memory"
    /\ question = <<>>
    /\ idx = 0
    /\ answers_by_agent = <<>>
    /\ judge_output = <<>>
    /\ winner_name = None
    /\ winner_answer = None
    /\ err = NoErr
    /\ added = <<>>
    /\ startCouncil = InitialCouncil
    /\ startTurns = <<>>
    /\ judge_calls = 0
    /\ fallbacks = {}
    /\ histories = <<>>
    /\ passes = <<>>

\* a roster handed to maybe_eliminate_and_replace on its own
InitElim ==
    /\ \E c \in [1..Len(InitialCouncil) -> Counts] :
           /\ COUNCIL = CouncilWith(c)
           /\ startCouncil = CouncilWith(c)
    /\ turns = <<>>
    /\ max_turns = DefaultMaxTurns
    /\ questions_asked = 0
    /\ pc = "elim"
    /\ question = <<>>
    /\ idx = 0
    /\ answers_by_agent = <<>>
    /\ judge_output = <<>>
    /\ winner_name = None
    /\ winner_answer = None
    /\ err = NoErr
    /\ added = <<>>
    /\ startTurns = <<>>
    /\ judge_calls = 0
    /\ fallbacks = {}
    /\ histories = <<>>
    /\ passes = <<>>

----------------------------------------------------------------------------
(* main(): one pass of "while True" up to the call of run_council *)

ReadInput(inp, maxRounds) ==
    /\ pc = "input"
    /\ IF inp = EOF
       THEN /\ pc' = "exited"
            /\ UNCHANGED <<questions_asked, question, idx, answers_by_agent,
                           startCouncil, startTurns, judge_calls>>
       ELSE IF Strip(inp) = <<>>
       THEN UNCHANGED <<pc, questions_asked, question, idx, answers_by_agent,
                        startCouncil, startTurns, judge_calls>>
       ELSE IF Lower(Strip(inp)) \in { <<"q","u","i","t">>, <<"e","x","i","t">> }
       THEN /\ pc' = "exited"
            /\ UNCHANGED <<questions_asked, question, idx, answers_by_agent,
                           startCouncil, startTurns, judge_calls>>
       ELSE /\ questions_asked < maxRounds
            /\ questions_asked' = questions_asked + 1
            /\ question' = Strip(inp)
            /\ answers_by_agent' = <<>>
            /\ idx' = 1
            /\ pc' = IF Len(COUNCIL) = 0 THEN "judge" ELSE "ask"
            /\ startCouncil' = COUNCIL
            /\ startTurns' = turns
            /\ judge_calls' = 0
    /\ UNCHANGED <<COUNCIL, turns, max_turns, judge_output, winner_name,
                   winner_answer, err, added, fallbacks, histories, passes>>

\* mutant: ask_agent increments the wrong counter, "agent.wins += 1"
AskAgentOk_counts_win(raw) ==
    /\ pc = "ask"
    /\ COUNCIL' = [COUNCIL EXCEPT ![idx].wins = @ + 1]
    /\ answers_by_agent' = DictPut(answers_by_agent, COUNCIL[idx].name, Strip(raw))
    /\ histories' = Append(histories,
                           CallRecord(COUNCIL[idx].name, turns,
                                      HistoryMessages(to_messages(turns))))
    /\ IF idx = Len(COUNCIL)
       THEN pc' = "judge" /\ idx' = idx
       ELSE pc' = "ask" /\ idx' = idx + 1
    /\ UNCHANGED <<turns, max_turns, questions_asked, question, judge_output,
                   winner_name, winner_answer, err, added, startCouncil,
                   startTurns, judge_calls, fallbacks, passes>>

\* mutant: ask_agent forgets "agent.total_answers += 1"
AskAgentOk_no_count(raw) ==
    /\ pc = "ask"
    /\ answers_by_agent' = DictPut(answers_by_agent, COUNCIL[idx].name, Strip(raw))
    /\ histories' = Append(histories, CallRecord(COUNCIL[idx].name, turns, HistoryMessages(to_messages(turns))))
    /\ IF idx = Len(COUNCIL)
       THEN pc' = "judge" /\ idx' = idx
       ELSE pc' = "ask" /\ idx' = idx + 1
    /\ UNCHANGED <<COUNCIL, turns, max_turns, questions_asked, question,
                   judge_output, winner_name, winner_answer, err, added,
                   startCouncil, startTurns, judge_calls, fallbacks, passes>>

(* run_council(): ask_agent(COUNCIL[idx]) returns *)
AskAgentOk(raw) ==
    /\ pc = "ask"
    /\ LET agent == COUNCIL[idx]
           answer == Strip(raw)
       IN  /\ COUNCIL' = [COUNCIL EXCEPT ![idx].total_answers = @ + 1]
           /\ answers_by_agent' = DictPut(answers_by_agent, agent.name, answer)
           /\ histories' = Append(histories,
                                  CallRecord(agent.name, turns, HistoryMessages(to_messages(turns))))
    /\ IF idx = Len(COUNCIL)
       THEN pc' = "judge" /\ idx' = idx
       ELSE pc' = "ask" /\ idx' = idx + 1
    /\ UNCHANGED <<turns, max_turns, questions_asked, question, judge_output,
                   winner_name, winner_answer, err, added, startCouncil,
                   startTurns, judge_calls, fallbacks, passes>>

(* run_council(): call_ollama raises inside ask_agent; nothing catches it *)
AskAgentFail(e) ==
    /\ pc = "ask"
    /\ pc' = "crashed"
    /\ err' = e
    /\ histories' = Append(histories,
                           CallRecord(COUNCIL[idx].name, turns, HistoryMessages(to_messages(turns))))
    /\ UNCHANGED <<COUNCIL, turns, max_turns, questions_asked, question, idx,
                   answers_by_agent, judge_output, winner_name, winner_answer,
                   added, startCouncil, startTurns, judge_calls, fallbacks, passes>>

\* the fallback has already resolved this judge output for these keys
SeenFallback(keys, out) == \E f \in fallbacks : f[1] = keys /\ f[2] = out

\* mutant: the judge call is given the memory, "history_messages=memory.to_messages()"
JudgeOk_with_memory(out) ==
    /\ pc = "judge"
    /\ LET jo == Strip(out)
           parsed == parse_winning_agent(jo, DictKeys(answers_by_agent))
           winner == ResolveWinner(jo, answers_by_agent)
       IN  /\ judge_output' = jo
           /\ winner_name' = winner
           /\ winner_answer' = DictGet(answers_by_agent, winner)
           /\ COUNCIL' = CreditWinner(COUNCIL, winner)
           /\ fallbacks' = IF parsed = None
                           THEN fallbacks \cup
                                {<<DictKeys(answers_by_agent), jo, winner,
                                   IF \E f \in fallbacks :
                                        f[1] = DictKeys(answers_by_agent) /\ f[2] = jo
                                   THEN 2 ELSE 1>>}
                           ELSE fallbacks
    /\ judge_calls' = judge_calls + 1
    /\ histories' = Append(histories,
                           CallRecord(JudgeId, turns, HistoryMessages(to_messages(turns))))
    /\ pc' = "add_turn"
    /\ UNCHANGED <<turns, max_turns, questions_asked, question, idx,
                   answers_by_agent, err, added, startCouncil, startTurns, passes>>

(* run_council(): the judge call returns; verdict, win counter, return *)
JudgeOk(out) ==
    /\ pc = "judge"
    /\ LET jo == Strip(out)
           parsed == parse_winning_agent(jo, DictKeys(answers_by_agent))
           winner == ResolveWinner(jo, answers_by_agent)
       IN  /\ judge_output' = jo
           /\ winner_name' = winner
           /\ winner_answer' = DictGet(answers_by_agent, winner)
           /\ COUNCIL' = CreditWinner(COUNCIL, winner)
           /\ fallbacks' = IF parsed = None
                           THEN fallbacks \cup
                                {<<DictKeys(answers_by_agent), jo, winner,
                                   IF SeenFallback(DictKeys(answers_by_agent), jo)
                                   THEN 2 ELSE 1>>}
                           ELSE fallbacks
    /\ judge_calls' = judge_calls + 1
    /\ histories' = Append(histories, CallRecord(JudgeId, turns, HistoryMessages(None)))
    /\ pc' = "add_turn"
    /\ UNCHANGED <<turns, max_turns, questions_asked, question, idx,
                   answers_by_agent, err, added, startCouncil, startTurns, passes>>

(* run_council(): the judge call raises; nothing catches it *)
JudgeFail(e) ==
    /\ pc = "judge"
    /\ pc' = "crashed"
    /\ err' = e
    /\ judge_calls' = judge_calls + 1
    /\ histories' = Append(histories, CallRecord(JudgeId, turns, HistoryMessages(None)))
    /\ UNCHANGED <<COUNCIL, turns, max_turns, questions_asked, question, idx,
                   answers_by_agent, judge_output, winner_name, winner_answer,
                   added, startCouncil, startTurns, fallbacks, passes>>

\* mutant: the first persona's answer is stored instead of the winning answer
AddTurn_first_answer ==
    /\ pc = "add_turn"
    /\ turns' = add_turn(turns, max_turns, question, answers_by_agent[1][2])
    /\ added' = Append(added, <<question, answers_by_agent[1][2]>>)
    /\ pc' = "maintenance"
    /\ UNCHANGED <<COUNCIL, max_turns, questions_asked, question, idx,
                   answers_by_agent, judge_output, winner_name, winner_answer,
                   err, startCouncil, startTurns, judge_calls, fallbacks,
                   histories, passes>>

(* main(): MEMORY.add_turn(question, winner_answer) *)
AddTurn ==
    /\ pc = "add_turn"
    /\ turns' = add_turn(turns, max_turns, question, winner_answer)
    /\ added' = Append(added, <<question, winner_answer>>)
    /\ pc' = "maintenance"
    /\ UNCHANGED <<COUNCIL, max_turns, questions_asked, question, idx,
                   answers_by_agent, judge_output, winner_name, winner_answer,
                   err, startCouncil, startTurns, judge_calls, fallbacks,
                   histories, passes>>

\* mutant: the cadence test is off by one, "(questions_asked + 1) % 5 == 0"
Maintenance_off_by_one ==
    /\ pc = "maintenance"
    /\ COUNCIL' = IF (questions_asked + 1) % EliminationCadence = 0
                  THEN maybe_eliminate_and_replace(COUNCIL, ThresholdAnswers,
                                                   MinWinRateNum, MinWinRateDen)
                  ELSE COUNCIL
    /\ pc' = "input"
    /\ question' = <<>>
    /\ idx' = 0
    /\ answers_by_agent' = <<>>
    /\ judge_output' = <<>>
    /\ winner_name' = None
    /\ winner_answer' = None
    /\ startCouncil' = COUNCIL'
    /\ startTurns' = turns
    /\ judge_calls' = 0
    /\ histories' = <<>>
    /\ passes' = IF (questions_asked + 1) % EliminationCadence = 0
                 THEN Append(passes, questions_asked)
                 ELSE passes
    /\ UNCHANGED <<turns, max_turns, questions_asked, err, added, fallbacks>>

(* main(): "if questions_asked % 5 == 0: maybe_eliminate_and_replace(10, 0.15)", *)
(* then back to the prompt; the locals of the finished pass are dead          *)
Maintenance ==
    /\ pc = "maintenance"
    /\ COUNCIL' = IF questions_asked % EliminationCadence = 0
                  THEN maybe_eliminate_and_replace(COUNCIL, ThresholdAnswers,
                                                   MinWinRateNum, MinWinRateDen)
                  ELSE COUNCIL
    /\ pc' = "input"
    /\ question' = <<>>
    /\ idx' = 0
    /\ answers_by_agent' = <<>>
    /\ judge_output' = <<>>
    /\ winner_name' = None
    /\ winner_answer' = None
    /\ startCouncil' = COUNCIL'
    /\ startTurns' = turns
    /\ judge_calls' = 0
    /\ histories' = <<>>
    /\ passes' = IF questions_asked % EliminationCadence = 0
                 THEN Append(passes, questions_asked)
                 ELSE passes
    /\ UNCHANGED <<turns, max_turns, questions_asked, err, added, fallbacks>>

(* ConversationMemory.add_turn called directly *)
MemAddTurn(user_text, assistant_text) ==
    /\ pc = "memory"
    /\ Len(added) < MaxAdds
    /\ turns' = add_turn(turns, max_turns, user_text, assistant_text)
    /\ added' = Append(added, <<user_text, assistant_text>>)
    /\ UNCHANGED <<COUNCIL, max_turns, questions_asked, pc, question, idx,
                   answers_by_agent, judge_output, winner_name, winner_answer,
                   err, startCouncil, startTurns, judge_calls, fallbacks,
                   histories, passes>>

(* ConversationMemory.to_messages called directly *)
MemToMessages ==
    /\ pc = "memory"
    /\ histories' = << CallRecord(DirectId, turns, to_messages(turns)) >>
    /\ UNCHANGED <<COUNCIL, turns, max_turns, questions_asked, pc, question, idx,
                   answers_by_agent, judge_output, winner_name, winner_answer,
                   err, added, startCouncil, startTurns, judge_calls, fallbacks,
                   passes>>

(* maybe_eliminate_and_replace called directly *)
ElimPass(threshold_answers, num, den) ==
    /\ pc = "elim"
    /\ COUNCIL' = maybe_eliminate_and_replace(COUNCIL, threshold_answers, num, den)
    /\ passes' = Append(passes, questions_asked)
    /\ pc' = "elim_done"
    /\ UNCHANGED <<turns, max_turns, questions_asked, question, idx,
                   answers_by_agent, judge_output, winner_name, winner_answer,
                   err, added, startCouncil, startTurns, judge_calls, fallbacks,
                   histories>>

----------------------------------------------------------------------------
(* Specifications *)

Next ==
    \/ \E inp \in Inputs : ReadInput(inp, MaxRounds)
    \/ \E raw \in Replies : AskAgentOk(raw)
    \/ \E e \in GatewayErrors : AskAgentFail(e)
    \/ \E out \in JudgeReplies : JudgeOk(out)
    \/ \E e \in GatewayErrors : JudgeFail(e)
    \/ AddTurn
    \/ Maintenance

Spec == Init /\ [][Next]_vars

NextLong ==
    \/ \E inp \in LongInputs : ReadInput(inp, MaxRoundsLong)
    \/ \E raw \in LongReplies : AskAgentOk(raw)
    \/ \E e \in GatewayErrors : AskAgentFail(e)
    \/ \E out \in LongJudgeReplies : JudgeOk(out)
    \/ \E e \in GatewayErrors : JudgeFail(e)
    \/ AddTurn
    \/ Maintenance

SpecLong == Init /\ [][NextLong]_vars

NextMem ==
    \/ \E u \in MemTexts, a \in MemTexts : MemAddTurn(u, a)
    \/ MemToMessages

SpecMem == InitMem /\ [][NextMem]_vars

NextElim == \E t \in ElimThresholds, r \in ElimRates : ElimPass(t, r[1], r[2])

SpecElim == InitElim /\ [][NextElim]_vars

----------------------------------------------------------------------------
(* Properties *)

Min(a, b) == IF a <= b THEN a ELSE b

Names(council) == [i \in 1..Len(council) |-> council[i].name]

\* positions of the keys whose lower-cased identity occurs in the lower-cased,
\* stripped judge output
Mentioned(keys, out) ==
    { i \in 1..Len(keys) : In(Lower(keys[i]), Lower(Strip(out))) }

\* first position at which sub occurs in s (0 when it does not)
PosIn(sub, s) ==
    IF In(sub, s)
    THEN 1 + CHOOSE k \in 0..(Len(s) - Len(sub)) :
               /\ SubSeq(s, k + 1, k + Len(sub)) = sub
               /\ \A j \in 0..(k - 1) : SubSeq(s, j + 1, j + Len(sub)) # sub
    ELSE 0

\* C1: after every add_turn on a memory with bound K >= 1 the log holds at
\* most K turns and is exactly the last min(n, K) turns added, in insertion
\* order, n being the number of add_turn calls so far.
C1_FifoEviction ==
    LET n == Len(added)
        m == Min(n, max_turns)
    IN  /\ max_turns >= 1
        /\ Len(turns) <= max_turns
        /\ turns = SubSeq(added, n - m + 1, n)

\* an add_turn call has evicted the oldest turn
C1_Witness ==
    /\ pc = "memory"
    /\ Len(added) > max_turns
    /\ Len(turns) = max_turns
    /\ turns[1] # added[1]

\* C2: a gateway failure for one persona, in a round where another persona
\* answered, does not fail the round: the round goes on to judging.
C2_RoundContinuesAfterPersonaFailure ==
    (err # NoErr /\ judge_calls = 0 /\ answers_by_agent # <<>>)
        => pc \in {"ask", "judge", "add_turn"}

\* C3: a failed round leaves the Memory log and every persona's wins and
\* total_answers as they were when the round started.
C3_FailedRoundLeavesState ==
    err # NoErr => (COUNCIL = startCouncil /\ turns = startTurns)

\* C4: a round in which no persona produced an answer fails with
\* NoAnswersError, and the judge is not invoked in it.
C4_NoAnswersError ==
    (err # NoErr /\ answers_by_agent = <<>>)
        => (err = "NoAnswersError" /\ judge_calls = 0)

\* C5: after a failed round the session is usable: main() is back at its
\* prompt with the same roster and the Memory of before the failed round.
C5_SessionUsableAfterFailure ==
    err # NoErr
        => (pc = "input" /\ Names(COUNCIL) = Names(startCouncil) /\ turns = startTurns)

\* C6: a round in which all N personas answered returns a mapping with
\* exactly N entries, one per persona, and one winner that is a key of the
\* mapping, the winning answer being the mapping's value for that key.
C6_AllAnswered ==
    pc = "add_turn" =>
        /\ Len(answers_by_agent) = Len(startCouncil)
        /\ DictKeys(answers_by_agent) = Names(startCouncil)
        /\ Cardinality({ i \in 1..Len(answers_by_agent) :
                           answers_by_agent[i][1] = winner_name }) = 1
        /\ \A i \in 1..Len(answers_by_agent) :
               answers_by_agent[i][1] = winner_name
                   => winner_answer = answers_by_agent[i][2]

\* a completed round whose winner is not the first persona and whose answer
\* differs from the first persona's
C6_Witness ==
    /\ pc = "add_turn"
    /\ Len(answers_by_agent) = 3
    /\ winner_name # answers_by_agent[1][1]
    /\ winner_answer # answers_by_agent[1][2]

\* C7: when the judge output mentions several answering personas, the winner
\* is the mentioned one that comes first in the mapping's order.
C7_EarliestInMappingOrder ==
    pc = "add_turn" =>
        LET keys == DictKeys(answers_by_agent)
            M == Mentioned(keys, judge_output)
        IN  Cardinality(M) >= 2
                => winner_name = keys[CHOOSE i \in M : \A j \in M : i <= j]

\* the judge output mentions two personas and the winner is not the one
\* mentioned first in the text
C7_Witness ==
    /\ pc = "add_turn"
    /\ LET keys == DictKeys(answers_by_agent)
           raw == Lower(Strip(judge_output))
           M == Mentioned(keys, judge_output)
       IN  /\ Cardinality(M) >= 2
           /\ \E i \in M : PosIn(Lower(keys[i]), raw) < PosIn(Lower(winner_name), raw)

\* C8: when the judge output mentions no answering persona the round
\* completes with the first persona in iteration order as winner, and two
\* rounds with the same key order and the same judge output have the same
\* winner.
C8_FallbackToFirst ==
    /\ pc = "add_turn" =>
           (Mentioned(DictKeys(answers_by_agent), judge_output) = {}
                => (winner_name = answers_by_agent[1][1] /\ err = NoErr))
    /\ \A f \in fallbacks : \A g \in fallbacks :
           (f[1] = g[1] /\ f[2] = g[2]) => f[3] = g[3]

\* the fallback has resolved the same judge output for the same keys twice
C8_Witness ==
    /\ pc = "add_turn"
    /\ Mentioned(DictKeys(answers_by_agent), judge_output) = {}
    /\ <<DictKeys(answers_by_agent), judge_output, winner_name, 2>> \in fallbacks

\* C9: after a completed round exactly one persona has wins incremented by
\* 1, and it is the winner; every persona that answered has total_answers
\* incremented by 1; nothing else of any persona has changed.
C9_CountersAfterRound ==
    pc = "add_turn" =>
        /\ Len(COUNCIL) = Len(startCouncil)
        /\ \A i \in 1..Len(COUNCIL) :
             /\ COUNCIL[i].name = startCouncil[i].name
             /\ COUNCIL[i].role = startCouncil[i].role
             /\ COUNCIL[i].system_prompt = startCouncil[i].system_prompt
             /\ COUNCIL[i].wins = startCouncil[i].wins
                    + (IF COUNCIL[i].name = winner_name THEN 1 ELSE 0)
             /\ COUNCIL[i].total_answers = startCouncil[i].total_answers
                    + (IF DictHas(answers_by_agent, COUNCIL[i].name) THEN 1 ELSE 0)
        /\ Cardinality({ i \in 1..Len(COUNCIL) :
                           COUNCIL[i].wins = startCouncil[i].wins + 1 }) = 1

\* a completed round, not the first, won by a persona other than the first
C9_Witness ==
    /\ pc = "add_turn"
    /\ questions_asked >= 2
    /\ winner_name # COUNCIL[1].name
    /\ \E i \in 1..Len(COUNCIL) : startCouncil[i].wins >= 1

\* C10: every persona of the roster has wins <= total_answers.
C10_WinsAtMostAnswers ==
    \A i \in 1..Len(COUNCIL) : COUNCIL[i].wins <= COUNCIL[i].total_answers

\* after an elimination pass a replacement has won every round it answered
C10_Witness ==
    \E i \in 1..Len(COUNCIL) :
        /\ Len(COUNCIL[i].name) > Len(TraineePrefix)
        /\ SubSeq(COUNCIL[i].name, 1, Len(TraineePrefix)) = TraineePrefix
        /\ COUNCIL[i].wins >= 1
        /\ COUNCIL[i].wins = COUNCIL[i].total_answers

----------------------------------------------------------------------------
(* Properties of the elimination pass, the memory context and the ordering *)

InRoster(agent, council) == \E j \in 1..Len(council) : council[j] = agent

NameInRoster(name, council) == \E j \in 1..Len(council) : council[j].name = name

PosOf(name, council) == CHOOSE j \in 1..Len(council) : council[j].name = name

IsTrainee(name) ==
    /\ Len(name) > Len(TraineePrefix)
    /\ SubSeq(name, 1, Len(TraineePrefix)) = TraineePrefix

\* messages is the context of log: user and assistant entries, oldest turn first
IsContextOf(messages, log) ==
    /\ Len(messages) = 2 * Len(log)
    /\ \A i \in 1..Len(log) :
         /\ messages[2 * i - 1] = [role |-> "user", content |-> log[i][1]]
         /\ messages[2 * i] = [role |-> "assistant", content |-> log[i][2]]

\* rounds that have run to the end of run_council and add_turn
CompletedRounds ==
    IF pc \in {"ask", "judge", "add_turn", "crashed"}
    THEN questions_asked - 1
    ELSE questions_asked

\* C11: a pass with (threshold_answers, min_win_rate) keeps unchanged every
\* persona with total_answers < threshold_answers and every persona with
\* wins/total_answers >= min_win_rate, and replaces every other persona by a
\* fresh persona with wins = 0 and total_answers = 0.
C11_EliminationRule ==
    [][\A t \in ElimThresholds : \A r \in ElimRates :
         ElimPass(t, r[1], r[2]) =>
           \A i \in 1..Len(COUNCIL) :
             LET a == COUNCIL[i]
             IN  IF \/ a.total_answers < t
                    \/ a.wins * r[2] >= r[1] * a.total_answers
                 THEN InRoster(a, COUNCIL')
                 ELSE /\ ~NameInRoster(a.name, COUNCIL')
                      /\ \E j \in 1..Len(COUNCIL') :
                           /\ COUNCIL'[j].name = TraineePrefix \o a.name
                           /\ COUNCIL'[j].wins = 0
                           /\ COUNCIL'[j].total_answers = 0]_vars

\* a pass has kept a persona that never won (few answers), kept one that
\* won, and replaced one
C11_Witness ==
    /\ pc = "elim_done"
    /\ \E i \in 1..Len(startCouncil) :
         /\ startCouncil[i].wins = 0
         /\ startCouncil[i].total_answers >= 1
         /\ InRoster(startCouncil[i], COUNCIL)
    /\ \E i \in 1..Len(startCouncil) :
         /\ startCouncil[i].wins >= 1
         /\ startCouncil[i].total_answers >= 2
         /\ InRoster(startCouncil[i], COUNCIL)
    /\ \E i \in 1..Len(startCouncil) :
         /\ ~NameInRoster(startCouncil[i].name, COUNCIL)
         /\ NameInRoster(TraineePrefix \o startCouncil[i].name, COUNCIL)

\* C12: no two personas of the roster have the same identity.
C12_UniqueIdentities ==
    \A i \in 1..Len(COUNCIL) : \A j \in 1..Len(COUNCIL) :
        i # j => COUNCIL[i].name # COUNCIL[j].name

\* the roster holds the replacement of a replacement and another replacement
C12_Witness ==
    /\ \E i \in 1..Len(COUNCIL) :
         /\ IsTrainee(COUNCIL[i].name)
         /\ IsTrainee(SubSeq(COUNCIL[i].name, Len(TraineePrefix) + 1,
                             Len(COUNCIL[i].name)))
    /\ Cardinality({ i \in 1..Len(COUNCIL) : IsTrainee(COUNCIL[i].name) }) >= 2

\* C13: one turn, the question with the winning answer, is given to add_turn
\* per completed round, after the winner is determined; a round that does not
\* complete adds nothing; a stored turn is only ever evicted, never changed.
C13_OneTurnPerCompletedRound ==
    /\ [](Len(added) = CompletedRounds)
    /\ [][/\ added' # added =>
               /\ pc = "add_turn"
               /\ judge_calls = 1
               /\ DictHas(answers_by_agent, winner_name)
               /\ \E i \in 1..Len(answers_by_agent) :
                    /\ answers_by_agent[i][1] = winner_name
                    /\ added' = Append(added, <<question, answers_by_agent[i][2]>>)
          /\ turns' # turns =>
               /\ added' # added
               /\ \E k \in 0..Len(turns) :
                    turns' = SubSeq(turns, k + 1, Len(turns))
                               \o <<added'[Len(added')]>>]_vars

\* a second round has stored the answer of a winner that is not the first persona
C13_Witness ==
    /\ pc = "maintenance"
    /\ Len(added) >= 2
    /\ turns[Len(turns)] = <<question, winner_answer>>
    /\ winner_answer # answers_by_agent[1][2]

\* C14: to_messages gives, for a log of n turns, 2n entries, entries 2i-1 and
\* 2i being the question and the answer of the i-th oldest turn (none for an
\* empty log), and leaves the log unchanged.
C14_ToMessages ==
    /\ [](\A k \in 1..Len(histories) :
            /\ histories[k].who = DirectId
            /\ IsContextOf(histories[k].messages, histories[k].log)
            /\ (histories[k].log = <<>> => histories[k].messages = <<>>))
    /\ [][MemToMessages => (turns' = turns /\ histories'[1].log = turns)]_vars

\* to_messages was called on a log of two different turns
C14_Witness ==
    /\ pc = "memory"
    /\ histories # <<>>
    /\ Len(histories[1].log) = 2
    /\ histories[1].log[1] # histories[1].log[2]
    /\ histories[1].log[1][1] # histories[1].log[1][2]
    /\ turns = histories[1].log

\* C15: the judge is invoked at most once per round and only after every
\* persona of the round has been invoked and has returned; wins and Memory
\* change only after the judge invocation has returned.
C15_JudgeAfterPersonas ==
    /\ [](/\ judge_calls <= 1
          /\ judge_calls = Cardinality({ k \in 1..Len(histories) :
                                           histories[k].who = JudgeId })
          /\ \A k \in 1..Len(histories) :
               histories[k].who = JudgeId =>
                 /\ k = Len(startCouncil) + 1
                 /\ \A i \in 1..Len(startCouncil) :
                      histories[i].who = startCouncil[i].name
                 /\ Len(answers_by_agent) = Len(startCouncil))
    /\ [][(\/ turns' # turns
           \/ [i \in 1..Len(COUNCIL') |-> COUNCIL'[i].wins]
                # [i \in 1..Len(COUNCIL) |-> COUNCIL[i].wins])
          => /\ pc \in {"judge", "add_turn", "maintenance"}
             /\ judge_calls' = 1 \/ judge_calls = 1
             /\ err' = NoErr]_vars

\* the judge has returned after the three personas and a win is credited
C15_Witness ==
    /\ pc = "add_turn"
    /\ judge_calls = 1
    /\ Len(histories) = 4
    /\ \E i \in 1..Len(COUNCIL) : COUNCIL[i].wins = startCouncil[i].wins + 1

\* C16: every persona invocation of a round receives the context of the
\* Memory as it was when the round started; the judge invocation receives an
\* empty context.
C16_ContextPerCall ==
    \A k \in 1..Len(histories) :
        IF histories[k].who = JudgeId
        THEN histories[k].messages = <<>>
        ELSE /\ IsContextOf(histories[k].messages, startTurns)
             /\ Len(histories[k].messages) = 2 * Min(questions_asked - 1, max_turns)

\* the judge was called with an empty context while the Memory holds turns
\* that the personas received
C16_Witness ==
    /\ pc = "add_turn"
    /\ turns # <<>>
    /\ Len(histories) = 4
    /\ histories[4].who = JudgeId
    /\ histories[4].messages = <<>>
    /\ histories[1].messages # <<>>
    /\ histories[3].messages = histories[1].messages

\* C17: the elimination pass runs only between rounds, after each completed
\* round whose number is a multiple of 5 (its turn already added) and after
\* no other round.
C17_PassCadence ==
    /\ [](LET n == IF pc = "maintenance" THEN questions_asked - 1
                   ELSE CompletedRounds
          IN  passes = [k \in 1..(n \div 5) |-> 5 * k])
    /\ [][passes' # passes =>
            /\ pc = "maintenance"
            /\ pc' = "input"
            /\ Len(added) = questions_asked
            /\ questions_asked % 5 = 0]_vars

\* two passes have run, after rounds 5 and 10, and a later round is running
C17_Witness ==
    /\ Len(passes) = 2
    /\ pc = "judge"
    /\ questions_asked = 12

\* C18: a pass preserves the size of the roster; the retained personas come
\* first in their previous order, then the replacements in the order of
\* their predecessors, each named "Trainee_" + predecessor.
C18_RosterOrder ==
    [][passes' # passes =>
         LET kept == { i \in 1..Len(COUNCIL) : InRoster(COUNCIL[i], COUNCIL') }
             gone == (1..Len(COUNCIL)) \ kept
             newpos(i) == IF i \in kept
                          THEN PosOf(COUNCIL[i].name, COUNCIL')
                          ELSE PosOf(TraineePrefix \o COUNCIL[i].name, COUNCIL')
         IN  /\ Len(COUNCIL') = Len(COUNCIL)
             /\ \A i \in gone : NameInRoster(TraineePrefix \o COUNCIL[i].name, COUNCIL')
             /\ \A i \in kept : newpos(i) <= Cardinality(kept)
             /\ \A i \in gone : newpos(i) > Cardinality(kept)
             /\ \A i \in kept : \A j \in kept : i < j => newpos(i) < newpos(j)
             /\ \A i \in gone : \A j \in gone : i < j => newpos(i) < newpos(j)]_vars

\* after a pass the first persona is no longer Analyst, who was replaced
C18_Witness ==
    /\ pc = "input"
    /\ passes # <<>>
    /\ COUNCIL[1].name = Optimist
    /\ COUNCIL[Len(COUNCIL)].name = TraineePrefix \o Analyst

\* C19: no elimination pass replaces every persona of the roster.
C19_SomeoneRetained ==
    [][passes' # passes =>
         \E i \in 1..Len(COUNCIL) : InRoster(COUNCIL[i], COUNCIL')]_vars

\* a pass has just replaced two of the three personas
C19_Witness ==
    /\ pc = "input"
    /\ passes # <<>>
    /\ questions_asked = passes[Len(passes)]
    /\ Cardinality({ i \in 1..Len(COUNCIL) :
                       /\ IsTrainee(COUNCIL[i].name)
                       /\ COUNCIL[i].total_answers = 0 }) = 2

\* C20: no roster identity is a case-insensitive substring of another, and a
\* judge output that is exactly an answering persona's identity, in any
\* letter case, makes that persona the winner.
C20_ExactVerdict ==
    /\ \A i \in 1..Len(COUNCIL) : \A j \in 1..Len(COUNCIL) :
           i # j => ~In(Lower(COUNCIL[i].name), Lower(COUNCIL[j].name))
    /\ pc = "add_turn" =>
           \A i \in 1..Len(answers_by_agent) :
               Lower(Strip(judge_output)) = Lower(answers_by_agent[i][1])
                   => winner_name = answers_by_agent[i][1]

\* after a pass the judge named a replacement, not the first persona, in
\* another letter case, and it won
C20_Witness ==
    /\ pc = "add_turn"
    /\ passes # <<>>
    /\ \E i \in 2..Len(answers_by_agent) :
         /\ Lower(judge_output) = Lower(answers_by_agent[i][1])
         /\ judge_output # answers_by_agent[i][1]
         /\ IsTrainee(answers_by_agent[i][1])
         /\ winner_name = answers_by_agent[i][1]

====
